---- MODULE Spec2Model ----
(***************************************************************************)
(* Moonsheep: verification of crowd-sourced task runs.                     *)
(*                                                                         *)
(* The model follows one webhook request at a time through                 *)
(*   WebhookTaskRunView.post -> AbstractTask.verify_task ->                *)
(*   AbstractTask.verify_and_save -> save_verified_data / after_save       *)
(* with several request handlers running concurrently (one per worker of   *)
(* the web server), the task runs stored in PyBossa, the database that     *)
(* save_verified_data writes through django's transaction.atomic(), and    *)
(* the tasks that after_save creates in PyBossa through create_new_task.   *)
(***************************************************************************)
EXTENDS Integers, Sequences, FiniteSets, TLC

(***************************************************************************)
(* Bounds of the model.                                                    *)
(***************************************************************************)
\* task runs PyBossa stores per task
MaxRuns == 2
\* webhook requests received in one behaviour
MaxRequests == 2
\* create_new_task calls one run of the after_save hook makes
MaxFollowOn == 1
\* answers handed to one cross_check call
MaxEntries == 3
\* fields of one POSTed form
MaxFields == 3
\* task types registered in registry.TASK_TYPES
MaxTypes == 3
\* calls of get_random_mocked_task_data in one behaviour
MaxCalls == 4

\* request handlers that may run at the same time
Procs == {"w1", "w2"}
\* the task that is verified, and the project it belongs to
TaskIds == {"T1"}
ProjectIds == {"P1"}

(***************************************************************************)
(* Value trees: scalars, sequences and mappings, tagged by their shape.    *)
(***************************************************************************)
Scalar(x) == [kind |-> "scalar", val |-> x]
List(s) == [kind |-> "list", val |-> s]
Dict(f) == [kind |-> "dict", val |-> f]
None == [kind |-> "none"]

\* The answers a volunteer may submit for a task (taskrun.data['info']).
SubmissionPool ==
    << Dict([name |-> Scalar("A"), tags |-> List(<<Scalar("x"), Scalar("y")>>)]),
       Dict([name |-> Scalar("A"), tags |-> List(<<Scalar("y"), Scalar("x")>>)]),
       Dict([name |-> Scalar("B"), tags |-> List(<<Scalar("x"), Scalar("y")>>)]) >>

(***************************************************************************)
(* moonsheep.verifiers                                                     *)
(***************************************************************************)
MIN_CONFIDENCE == 1
MinRequired == 2

\* Equals: all values identical => (value, 1), otherwise (none, 0)
EqualsVerifier(values) ==
    IF \A i \in 1..Len(values) : values[i].val = values[1].val
    THEN <<values[1], 1>>
    ELSE <<None, 0>>

\* the set of the elements of a sequence-shaped value
AsSet(v) == {v.val[i] : i \in 1..Len(v.val)}

\* UnorderedSet: equal as sets => (the first submission's sequence, 1)
UnorderedSetVerifier(values) ==
    IF \A i \in 1..Len(values) : AsSet(values[i]) = AsSet(values[1])
    THEN <<values[1], 1>>
    ELSE <<None, 0>>

MinOf(S) == IF S = {} THEN 1 ELSE CHOOSE c \in S : \A d \in S : c <= d

\* the verifier chosen by the runtime shape of a value
VerifierFor(v) ==
    CASE v.kind = "dict" -> "DictVerifier"
      [] v.kind = "list" -> "UnorderedSetVerifier"
      [] OTHER -> "EqualsVerifier"

RECURSIVE DEFAULT_DICT_VERIFIER(_)
\* the chosen verifier, called with all the values of the position
DefaultVerifier(values) ==
    LET verifier == VerifierFor(values[1])
    IN  CASE verifier = "DictVerifier" -> DEFAULT_DICT_VERIFIER(values)
          [] verifier = "UnorderedSetVerifier" -> UnorderedSetVerifier(values)
          [] OTHER -> EqualsVerifier(values)

\* Recursive mapping verifier: every key verified on its own, the overall
\* confidence is the minimum of the confidences of the fields.
DEFAULT_DICT_VERIFIER(values) ==
    IF Len(values) < MinRequired THEN <<None, 0>>
    ELSE IF values[1].kind # "dict" THEN DefaultVerifier(values)
    ELSE LET keys == DOMAIN values[1].val
             sub(k) == DefaultVerifier([i \in 1..Len(values) |-> values[i].val[k]])
             conf == MinOf({sub(k)[2] : k \in keys})
         IN  IF conf < MIN_CONFIDENCE THEN <<None, conf>>
             ELSE <<Dict([k \in keys |-> sub(k)[1]]), conf>>

\* the calls of verifiers that one call of the default verifier makes: the
\* verifier, the position (path of keys) and the values it is called with
RECURSIVE VerifierCalls(_, _)
VerifierCalls(values, path) ==
    IF Len(values) < MinRequired THEN {}
    ELSE {[path |-> path, verifier |-> VerifierFor(values[1]), values |-> values]}
         \cup IF VerifierFor(values[1]) = "DictVerifier"
              THEN UNION {VerifierCalls([i \in 1..Len(values) |-> values[i].val[k]],
                                        Append(path, k)) :
                          k \in DOMAIN values[1].val}
              ELSE {}

(***************************************************************************)
(* moonsheep.mapper, moonsheep.registry                                    *)
(***************************************************************************)
\* the task classes that exist, by their full reference
TaskClasses == {"moonsheep.tests.DummyTask", "app.tasks.FindTableTask"}
\* the type a task stored in PyBossa may carry in info['type']
StoredTypes == TaskClasses \cup {"app.tasks.RemovedTask"}
NoClass == "none"

\* klass_from_name: the class of that name; fails when there is none
Resolves(task_type) == task_type \in TaskClasses
klass_from_name(task_type) == task_type

(***************************************************************************)
(* moonsheep.tasks.AbstractTask                                            *)
(***************************************************************************)
\* a create_task_instance that instantiates the base class
create_task_instance_base(task_type) == "moonsheep.tasks.AbstractTask"

\* create_task_instance: klass = klass_from_name(task_type); klass(**kwargs)
create_task_instance(task_type) == klass_from_name(task_type)

\* a cross_check that takes the first answer for granted
cross_check_trusts_first(entries) ==
    IF Len(entries) = 0 THEN <<None, 0>> ELSE <<entries[1], 1>>

\* a cross_check that compares the answers by plain equality
cross_check_by_equality(entries) ==
    IF Len(entries) < MinRequired THEN <<None, 0>>
    ELSE IF \A i \in 1..Len(entries) : entries[i] = entries[1]
         THEN <<entries[1], 1>>
         ELSE <<None, 0>>

\* a cross_check that hands the answers to EqualsVerifier whatever their shape
cross_check_equals_root(entries) ==
    IF Len(entries) < MinRequired THEN <<None, 0>> ELSE EqualsVerifier(entries)

\* a cross_check that compares the first two answers only
cross_check_first_two(entries) ==
    IF Len(entries) < MinRequired THEN <<None, 0>>
    ELSE DEFAULT_DICT_VERIFIER(<<entries[1], entries[2]>>)

\* a cross_check that does not descend into nested mappings
cross_check_shallow(entries) ==
    IF Len(entries) < MinRequired \/ entries[1].kind # "dict"
    THEN DEFAULT_DICT_VERIFIER(entries)
    ELSE LET keys == DOMAIN entries[1].val
             sub(k) == IF entries[1].val[k].kind = "dict"
                       THEN <<entries[1].val[k], 1>>
                       ELSE DefaultVerifier([i \in 1..Len(entries) |-> entries[i].val[k]])
             conf == MinOf({sub(k)[2] : k \in keys})
         IN  IF conf < MIN_CONFIDENCE THEN <<None, conf>>
             ELSE <<Dict([k \in keys |-> sub(k)[1]]), conf>>

\* cross_check: (results, confidence) of the default dict verifier
cross_check(entries) == DEFAULT_DICT_VERIFIER(entries)

\* AbstractTask.__init__: self.verified = False
InitVerified == FALSE

\* a flag set by a strict comparison
IsVerified_strict(conf) == conf > MIN_CONFIDENCE

\* a flag set whatever the confidence: unverified data is saved too
IsVerified_always(conf) == conf >= 0

\* verify_and_save: self.verified = confidence >= MIN_CONFIDENCE
IsVerified(conf) == conf >= MIN_CONFIDENCE

(***************************************************************************)
(* moonsheep.views.WebhookTaskRunView                                      *)
(***************************************************************************)
\* The bodies a POST may carry.  A field that is missing, null or empty is
\* "" (webhook_data.get(..) is falsy); a body that is not JSON has no fields;
\* a missing event is an event other than task_completed.
NotJson ==
    [method |-> "POST", json |-> FALSE, event |-> "", project_id |-> "", task_id |-> ""]
JsonBodies ==
    [method : {"POST"}, json : {TRUE}, event : {"task_completed", "unknown_event"},
     project_id : ProjectIds \cup {""}, task_id : TaskIds \cup {""}]
Requests == {NotJson} \cup JsonBodies
NoRequest ==
    [method |-> "none", json |-> FALSE, event |-> "none", project_id |-> "", task_id |-> ""]
\* a GET carries no body
GetRequest ==
    [method |-> "GET", json |-> FALSE, event |-> "", project_id |-> "", task_id |-> ""]

\* a post that does not check the task identifier
WellFormed_without_task_id(r) ==
    /\ r.method = "POST"
    /\ r.json
    /\ r.event = "task_completed"
    /\ ~(r.project_id = "")

\* post: the request is a task_completed event with both identifiers
WellFormed(r) ==
    /\ r.method = "POST"
    /\ r.json
    /\ r.event = "task_completed"
    /\ ~(r.project_id = "" \/ r.task_id = "")

\* a call with the two identifiers in the wrong order
VerifyTaskArgs_swapped(r) == <<r.task_id, r.project_id>>

\* post: AbstractTask.verify_task(project_id, task_id)
VerifyTaskArgs(r) == <<r.project_id, r.task_id>>

(***************************************************************************)
(* moonsheep.views.unpack_post: text of field names and indices            *)
(***************************************************************************)
\* Field names and path segments are sequences of characters.
DigitChars == <<"0", "1", "2", "3", "4", "5", "6", "7", "8", "9">>
Letters == {"a", "b", "d", "e", "f", "g", "i", "l", "m", "n", "o", "p", "r",
            "s", "t", "w"}

\* \d
IsDigit(c) == \E d \in 1..10 : DigitChars[d] = c
DigitVal(c) == (CHOOSE d \in 1..10 : DigitChars[d] = c) - 1
\* [\w\-_]
IsWord(c) == IsDigit(c) \/ c \in Letters \/ c \in {"_", "-"}

\* re.match(r'\d+', idx): idx starts with a digit
match_digits(idx) == Len(idx) > 0 /\ IsDigit(idx[1])

\* int(k) is defined for the texts made of digits; otherwise ValueError
IsInt(k) == Len(k) > 0 /\ \A i \in 1..Len(k) : IsDigit(k[i])
RECURSIVE int(_)
int(k) ==
    IF Len(k) = 1 THEN DigitVal(k[1])
    ELSE 10 * int(SubSeq(k, 1, Len(k) - 1)) + DigitVal(k[Len(k)])

\* str(n): the decimal text of a number
RECURSIVE str(_)
str(n) ==
    IF n < 10 THEN <<DigitChars[n + 1]>>
    ELSE str(n \div 10) \o <<DigitChars[(n % 10) + 1]>>

\* the name an HTML form gives a field: object[sel]...[sel] and maybe []
RECURSIVE Bracketed(_)
Bracketed(selectors) ==
    IF selectors = <<>> THEN <<>>
    ELSE <<"[">> \o Head(selectors) \o <<"]">> \o Bracketed(Tail(selectors))
FieldName(object, selectors, brackets) ==
    object \o Bracketed(selectors) \o (IF brackets THEN <<"[", "]">> ELSE <<>>)

\* the end of the run of [\w\-_] characters of k that starts at i
RECURSIVE WordEnd(_, _)
WordEnd(k, i) == IF i <= Len(k) /\ IsWord(k[i]) THEN WordEnd(k, i + 1) ELSE i

NoMatch == [matched |-> FALSE, object |-> <<>>, selectors |-> <<>>,
            trailing_brackets |-> FALSE]

\* (?P<selectors>(\[[\d\w\-_]+\])*)(?P<trailing_brackets>\[\])?$ from i on
RECURSIVE MatchSelectors(_, _, _, _)
MatchSelectors(k, i, object, acc) ==
    IF i > Len(k)
    THEN [matched |-> TRUE, object |-> object, selectors |-> acc,
          trailing_brackets |-> FALSE]
    ELSE IF k[i] # "[" THEN NoMatch
    ELSE LET j == WordEnd(k, i + 1)
         IN  IF j > i + 1 /\ j <= Len(k) /\ k[j] = "]"
             THEN MatchSelectors(k, j + 1, object, Append(acc, SubSeq(k, i + 1, j - 1)))
             ELSE IF j = i + 1 /\ j = Len(k) /\ k[j] = "]"
             THEN [matched |-> TRUE, object |-> object, selectors |-> acc,
                   trailing_brackets |-> TRUE]
             ELSE NoMatch

\* re.search of the field name pattern: ^(?P<object>[\w\-_]+) and the rest
re_search(k) ==
    LET j == WordEnd(k, 1)
    IN  IF j = 1 THEN NoMatch ELSE MatchSelectors(k, j, SubSeq(k, 1, j - 1), <<>>)

\* path = object + '/' + idx + ...: the segments of the path
PathOf(m) == <<m.object>> \o m.selectors

\* the paths recorded for an index that starts with a digit: the path up
\* to, and without, that index
ArrayPathsOf(m) ==
    {SubSeq(PathOf(m), 1, j) : j \in {j \in 1..Len(m.selectors) : match_digits(m.selectors[j])}}

\* a single value is left single whether or not the name ends in brackets
get_list_or_value_ignoring_brackets(values, m) ==
    IF Len(values) = 1
    THEN Scalar(values[1])
    ELSE List([i \in 1..Len(values) |-> Scalar(values[i])])

\* get_list_or_value: the only value, or the list of the values
get_list_or_value(values, m) ==
    IF Len(values) = 1 /\ ~m.trailing_brackets
    THEN Scalar(values[1])
    ELSE List([i \in 1..Len(values) |-> Scalar(values[i])])

(***************************************************************************)
(* dpath.util on the result of unpack_post: mappings from segments to      *)
(* trees, sequences addressed by the decimal text of the position          *)
(***************************************************************************)
Put(f, k, v) == [x \in (DOMAIN f) \cup {k} |-> IF x = k THEN v ELSE f[x]]

\* dpath.util.new: set the value at the path, creating the mappings on the way
RECURSIVE new(_, _, _)
new(obj, path, value) ==
    LET k == Head(path)
    IN  IF Len(path) = 1 THEN Dict(Put(obj.val, k, value))
        ELSE LET child == IF k \in DOMAIN obj.val THEN obj.val[k] ELSE Dict(<<>>)
             IN  Dict(Put(obj.val, k, new(child, Tail(path), value)))

NotFound == [found |-> FALSE, node |-> None]

\* dpath.util.get: the node at the path; KeyError when there is none
RECURSIVE get(_, _)
get(obj, path) ==
    IF path = <<>> THEN [found |-> TRUE, node |-> obj]
    ELSE CASE obj.kind = "dict" ->
                  IF Head(path) \in DOMAIN obj.val
                  THEN get(obj.val[Head(path)], Tail(path))
                  ELSE NotFound
           [] obj.kind = "list" ->
                  IF \E i \in 1..Len(obj.val) : str(i - 1) = Head(path)
                  THEN get(obj.val[CHOOSE i \in 1..Len(obj.val) : str(i - 1) = Head(path)],
                           Tail(path))
                  ELSE NotFound
           [] OTHER -> NotFound

\* dpath.util.set: replace the node at the path; nothing changes when there
\* is none
RECURSIVE set(_, _, _)
set(obj, path, value) ==
    IF path = <<>> THEN value
    ELSE CASE obj.kind = "dict" ->
                  IF Head(path) \in DOMAIN obj.val
                  THEN Dict([obj.val EXCEPT ![Head(path)] = set(@, Tail(path), value)])
                  ELSE obj
           [] obj.kind = "list" ->
                  IF \E i \in 1..Len(obj.val) : str(i - 1) = Head(path)
                  THEN List([obj.val EXCEPT
                               ![CHOOSE i \in 1..Len(obj.val) : str(i - 1) = Head(path)] =
                                   set(@, Tail(path), value)])
                  ELSE obj
           [] OTHER -> obj

Raise(exception) == [kind |-> "raise", val |-> exception]

\* the text a comes before the text b as texts do
RECURSIVE TextLess(_, _)
TextLess(a, b) ==
    IF a = <<>> THEN b # <<>>
    ELSE IF b = <<>> THEN FALSE
    ELSE IF Head(a) = Head(b) THEN TextLess(Tail(a), Tail(b))
    ELSE DigitVal(Head(a)) < DigitVal(Head(b))

\* the numbers of the keys in the order of the keys as texts
RECURSIVE sorted_as_text(_)
sorted_as_text(ks) ==
    IF ks = {} THEN <<>>
    ELSE LET k == CHOOSE k \in ks : \A o \in ks : o = k \/ TextLess(k, o)
         IN  <<int(k)>> \o sorted_as_text(ks \ {k})

\* sorted(numeric_keys): the numbers of the keys in ascending order
RECURSIVE sorted(_)
sorted(ks) ==
    IF ks = {} THEN <<>>
    ELSE LET k == CHOOSE k \in ks : \A o \in ks : int(k) <= int(o)
         IN  <<int(k)>> \o sorted(ks \ {k})

\* keys from which those that are no numbers have been left out
digit_keys(d) == {k \in DOMAIN d : IsInt(k)}

\* d.keys()
keys(d) == DOMAIN d

\* a post-pass that leaves a level alone when a key of it is no number
int_skips(obj) == obj

\* int(k_int) of a key that is no number: ValueError leaves unpack_post
int_raises(obj) == Raise("ValueError")

\* a sequence with a placeholder at every position no key names
arr_with_gaps(d) ==
    LET top == CHOOSE n \in {int(k) : k \in DOMAIN d} :
                   \A o \in {int(k) : k \in DOMAIN d} : o <= n
    IN  List([i \in 1..(top + 1) |-> IF str(i - 1) \in DOMAIN d THEN d[str(i - 1)] ELSE None])

\* arr: the values of d appended in the order of the sorted numbers
arr(d) ==
    LET numeric_keys == sorted(keys(d))
    IN  List([i \in 1..Len(numeric_keys) |-> d[str(numeric_keys[i])]])

\* one round of the post-pass: the mapping at path_to_d becomes the sequence
\* of its values in the order of its numeric keys
convert(obj, path_to_d) ==
    LET g == get(obj, path_to_d)
    IN  IF ~g.found THEN Raise("KeyError")
        ELSE IF g.node.kind # "dict" THEN Raise("AttributeError")
        ELSE LET d == g.node.val
             IN  IF \E k \in keys(d) : ~IsInt(k) THEN int_raises(obj)
                 ELSE LET numeric_keys == sorted(keys(d))
                      IN  IF \E i \in 1..Len(numeric_keys) :
                                 str(numeric_keys[i]) \notin DOMAIN d
                          THEN Raise("KeyError")
                          ELSE set(obj, path_to_d, arr(d))

(***************************************************************************)
(* State                                                                   *)
(***************************************************************************)
VARIABLES
    DEV_ROTATE_TASKS, \* settings.MOONSHEEP['DEV_ROTATE_TASKS']
    taskType,         \* PyBossa: info['type'] of each task
    taskruns,         \* PyBossa: the task runs of each task (indices into SubmissionPool)
    created,          \* PyBossa: tasks created by create_new_task, per parent task
    db,               \* database: the committed verified results of each task
    rejected,         \* history: an attempt on the task ended below MIN_CONFIDENCE
    nreq,             \* webhook requests received so far
    pc,               \* where each request handler is
    req,              \* the request a handler is serving (or served last)
    verifyCalls,      \* the verify_task calls of that request, with their arguments
    taskruns_list,    \* verify_task: the answers read from PyBossa
    klass,            \* verify_task: the class of the task instance
    verified,         \* the task instance's self.verified
    crosschecked,     \* verify_and_save: the resolved value
    confidence,       \* verify_and_save: the confidence
    staged,           \* writes of the open transaction.atomic() block
    inTxn,            \* the handler is inside transaction.atomic()
    calls,            \* hooks invoked by verify_and_save, in order, with their argument
    hookCreated,      \* create_new_task calls made by the running after_save
    ret,              \* what verify_and_save returned
    raised,           \* the hook whose exception ended the request
    response,         \* the answer of the request
    \* a call of cross_check on an instance, outside of a request
    shape,            \* the shape of the answers of the task
    entries,          \* the answers handed to cross_check
    returned,         \* cross_check has returned for these answers
    result,           \* what it returned: (results, confidence)
    verifier_calls,   \* the verifiers it called, with position and values
    \* a call of unpack_post
    post,             \* the QueryDict: fields (key, values) in insertion order
    upc,              \* where unpack_post is
    nkeys,            \* keys of post the loop has handled
    tree,             \* unpack_post: result
    convert_to_array_paths, \* unpack_post: paths still to be converted
    unpacked,         \* what unpack_post returned or raised
    Entry,            \* database: the data of the saved entries
    \* calls of TaskView.get_random_mocked_task_data()
    TASK_TYPES,       \* registry.TASK_TYPES
    mocked_task_counter, \* TaskView.__mocked_task_counter
    rpc,              \* where each thread is in the call
    loaded,           \* the value of the counter a thread has read to add 1 to it
    overlapped,       \* history: another thread was in the call during this one
    ncalls,           \* calls made so far
    rotated           \* history: what the calls returned or raised, in order

life == <<DEV_ROTATE_TASKS, taskType, taskruns, created, db, rejected, nreq,
          pc, req, verifyCalls, taskruns_list, klass, verified, crosschecked,
          confidence, staged, inTxn, calls, hookCreated, ret, raised, response>>

crosscheck == <<shape, entries, returned, result, verifier_calls>>

unpack == <<post, upc, nkeys, tree, convert_to_array_paths, unpacked, Entry>>

rotate == <<TASK_TYPES, mocked_task_counter, rpc, loaded, overlapped, ncalls, rotated>>

\* what a request leaves alone
pure == <<crosscheck, unpack, rotate>>

vars == <<life, crosscheck, unpack, rotate>>

shared == <<DEV_ROTATE_TASKS, taskType, taskruns, created, db, rejected, nreq>>

\* the task a handler is verifying: self.id of the instance
TaskOf(p) == verifyCalls[p][1][2]

\* verify_and_save: self.save_verified_data(crosschecked)
SaveArg(p) == crosschecked[p]

\* an after_save that is handed a raw answer instead of the resolved value
AfterSaveArg_raw_entry(p) == taskruns_list[p][Len(taskruns_list[p])]

\* verify_and_save: self.after_save(crosschecked)
AfterSaveArg(p) == crosschecked[p]

LifeInit ==
    /\ DEV_ROTATE_TASKS \in BOOLEAN
    /\ taskType \in [TaskIds -> StoredTypes]
    /\ taskruns = [t \in TaskIds |-> <<>>]
    /\ created = [t \in TaskIds |-> 0]
    /\ db = [t \in TaskIds |-> <<>>]
    /\ rejected = [t \in TaskIds |-> FALSE]
    /\ nreq = 0
    /\ pc = [p \in Procs |-> "idle"]
    /\ req = [p \in Procs |-> NoRequest]
    /\ verifyCalls = [p \in Procs |-> <<>>]
    /\ taskruns_list = [p \in Procs |-> <<>>]
    /\ klass = [p \in Procs |-> NoClass]
    /\ verified = [p \in Procs |-> InitVerified]
    /\ crosschecked = [p \in Procs |-> None]
    /\ confidence = [p \in Procs |-> 0]
    /\ staged = [p \in Procs |-> <<>>]
    /\ inTxn = [p \in Procs |-> FALSE]
    /\ calls = [p \in Procs |-> <<>>]
    /\ hookCreated = [p \in Procs |-> 0]
    /\ ret = [p \in Procs |-> "none"]
    /\ raised = [p \in Procs |-> "none"]
    /\ response = [p \in Procs |-> "none"]

\* no cross_check call outside of a request
CrossCheckIdle ==
    /\ shape = "none"
    /\ entries = <<>>
    /\ returned = FALSE
    /\ result = <<None, 0>>
    /\ verifier_calls = {}

\* no call of unpack_post
UnpackIdle ==
    /\ post = <<>>
    /\ upc = "idle"
    /\ nkeys = 0
    /\ tree = Dict(<<>>)
    /\ convert_to_array_paths = {}
    /\ unpacked = None
    /\ Entry = <<>>

\* no call of get_random_mocked_task_data: the counter is 0 as the class
\* body leaves it
RotateIdle ==
    /\ TASK_TYPES = <<>>
    /\ mocked_task_counter = 0
    /\ rpc = [t \in Procs |-> "idle"]
    /\ loaded = [t \in Procs |-> 0]
    /\ overlapped = [t \in Procs |-> FALSE]
    /\ ncalls = 0
    /\ rotated = <<>>

Init == LifeInit /\ CrossCheckIdle /\ UnpackIdle /\ RotateIdle

(***************************************************************************)
(* PyBossa: a volunteer's answer to a task is stored as a task run.        *)
(***************************************************************************)
SubmitTaskrun(t, i) ==
    /\ Len(taskruns[t]) < MaxRuns
    /\ taskruns' = [taskruns EXCEPT ![t] = Append(@, i)]
    /\ UNCHANGED <<DEV_ROTATE_TASKS, taskType, created, db, rejected, nreq, pc, req,
                   verifyCalls, taskruns_list, klass, verified, crosschecked,
                   confidence, staged, inTxn, calls, hookCreated, ret, raised,
                   response>>
    /\ UNCHANGED pure

(***************************************************************************)
(* WebhookTaskRunView.get: the address is checked, nothing is verified     *)
(***************************************************************************)
WebhookTaskRunView_get(p) ==
    /\ pc[p] = "idle"
    /\ nreq < MaxRequests
    /\ nreq' = nreq + 1
    /\ req' = [req EXCEPT ![p] = GetRequest]
    /\ taskruns_list' = [taskruns_list EXCEPT ![p] = <<>>]
    /\ klass' = [klass EXCEPT ![p] = NoClass]
    /\ verified' = [verified EXCEPT ![p] = InitVerified]
    /\ crosschecked' = [crosschecked EXCEPT ![p] = None]
    /\ confidence' = [confidence EXCEPT ![p] = 0]
    /\ staged' = [staged EXCEPT ![p] = <<>>]
    /\ calls' = [calls EXCEPT ![p] = <<>>]
    /\ hookCreated' = [hookCreated EXCEPT ![p] = 0]
    /\ ret' = [ret EXCEPT ![p] = "none"]
    /\ raised' = [raised EXCEPT ![p] = "none"]
    /\ verifyCalls' = [verifyCalls EXCEPT ![p] = <<>>]
    /\ response' = [response EXCEPT ![p] = "200"]
    /\ UNCHANGED <<DEV_ROTATE_TASKS, taskType, taskruns, created, db, rejected,
                   inTxn, pc>>
    /\ UNCHANGED pure

(***************************************************************************)
(* WebhookTaskRunView.post, up to the call of verify_task                  *)
(***************************************************************************)
WebhookTaskRunView_post(p, r) ==
    /\ pc[p] = "idle"
    /\ nreq < MaxRequests
    /\ nreq' = nreq + 1
    /\ req' = [req EXCEPT ![p] = r]
    /\ taskruns_list' = [taskruns_list EXCEPT ![p] = <<>>]
    /\ klass' = [klass EXCEPT ![p] = NoClass]
    /\ verified' = [verified EXCEPT ![p] = InitVerified]
    /\ crosschecked' = [crosschecked EXCEPT ![p] = None]
    /\ confidence' = [confidence EXCEPT ![p] = 0]
    /\ staged' = [staged EXCEPT ![p] = <<>>]
    /\ calls' = [calls EXCEPT ![p] = <<>>]
    /\ hookCreated' = [hookCreated EXCEPT ![p] = 0]
    /\ ret' = [ret EXCEPT ![p] = "none"]
    /\ raised' = [raised EXCEPT ![p] = "none"]
    /\ IF WellFormed(r)
       THEN /\ verifyCalls' = [verifyCalls EXCEPT ![p] = <<VerifyTaskArgs(r)>>]
            /\ pc' = [pc EXCEPT ![p] = "verify_task"]
            /\ response' = [response EXCEPT ![p] = "none"]
       ELSE /\ verifyCalls' = [verifyCalls EXCEPT ![p] = <<>>]
            /\ pc' = pc
            /\ response' = [response EXCEPT ![p] = "400"]
    /\ UNCHANGED <<DEV_ROTATE_TASKS, taskType, taskruns, created, db, rejected, inTxn>>
    /\ UNCHANGED pure

\* an exception leaves transaction.atomic(): the block's writes are rolled
\* back, and the exception leaves verify_and_save, verify_task and post
Propagate(p, hook) ==
    /\ staged' = [staged EXCEPT ![p] = <<>>]
    /\ inTxn' = [inTxn EXCEPT ![p] = FALSE]
    /\ raised' = [raised EXCEPT ![p] = hook]
    /\ response' = [response EXCEPT ![p] = "exception"]
    /\ pc' = [pc EXCEPT ![p] = "idle"]

(***************************************************************************)
(* AbstractTask.verify_task: read the task and its task runs from PyBossa, *)
(* create the task instance                                                *)
(***************************************************************************)
verify_task(p) ==
    /\ pc[p] = "verify_task"
    /\ LET runs == taskruns[TaskOf(p)]
       IN  taskruns_list' = [taskruns_list EXCEPT ![p] =
                               [i \in 1..Len(runs) |-> SubmissionPool[runs[i]]]]
    /\ IF Resolves(taskType[TaskOf(p)])
       THEN /\ klass' = [klass EXCEPT ![p] = create_task_instance(taskType[TaskOf(p)])]
            /\ pc' = [pc EXCEPT ![p] = "verify_and_save"]
            /\ UNCHANGED <<staged, inTxn, raised, response>>
       ELSE /\ klass' = klass
            /\ Propagate(p, "create_task_instance")
    /\ verified' = [verified EXCEPT ![p] = InitVerified]
    /\ UNCHANGED <<shared, req, verifyCalls, crosschecked, confidence, calls,
                   hookCreated, ret>>
    /\ UNCHANGED pure

(***************************************************************************)
(* AbstractTask.verify_and_save: cross check, set the flag, and either     *)
(* enter transaction.atomic() or return False                              *)
(***************************************************************************)
verify_and_save(p) ==
    /\ pc[p] = "verify_and_save"
    /\ LET cc == cross_check(taskruns_list[p])
       IN  /\ crosschecked' = [crosschecked EXCEPT ![p] = cc[1]]
           /\ confidence' = [confidence EXCEPT ![p] = cc[2]]
           /\ verified' = [verified EXCEPT ![p] = IsVerified(cc[2])]
           /\ IF IsVerified(cc[2])
              THEN /\ inTxn' = [inTxn EXCEPT ![p] = TRUE]
                   /\ pc' = [pc EXCEPT ![p] = "save_verified_data"]
                   /\ ret' = ret
                   /\ rejected' = rejected
              ELSE /\ inTxn' = inTxn
                   /\ pc' = [pc EXCEPT ![p] = "post_return"]
                   /\ ret' = [ret EXCEPT ![p] = "False"]
                   /\ rejected' = [rejected EXCEPT ![TaskOf(p)] = TRUE]
    /\ UNCHANGED <<DEV_ROTATE_TASKS, taskType, taskruns, created, db, nreq, req, verifyCalls, taskruns_list, klass, staged, calls,
                   hookCreated, raised, response>>
    /\ UNCHANGED pure

\* self.save_verified_data(crosschecked) writes the result
save_verified_data(p) ==
    /\ pc[p] = "save_verified_data"
    /\ calls' = [calls EXCEPT ![p] = Append(@, <<"save_verified_data", SaveArg(p), inTxn[p]>>)]
    /\ staged' = [staged EXCEPT ![p] = Append(@, SaveArg(p))]
    /\ pc' = [pc EXCEPT ![p] = "after_save"]
    /\ UNCHANGED <<shared, req, verifyCalls, taskruns_list, klass, verified,
                   crosschecked, confidence, inTxn, hookCreated, ret, raised,
                   response>>
    /\ UNCHANGED pure

\* self.save_verified_data(crosschecked) raises
save_verified_data_raises(p) ==
    /\ pc[p] = "save_verified_data"
    /\ calls' = [calls EXCEPT ![p] = Append(@, <<"save_verified_data", SaveArg(p), inTxn[p]>>)]
    /\ Propagate(p, "save_verified_data")
    /\ UNCHANGED <<shared, req, verifyCalls, taskruns_list, klass, verified,
                   crosschecked, confidence, hookCreated, ret>>
    /\ UNCHANGED pure

\* self.after_save(crosschecked) is entered
after_save(p) ==
    /\ pc[p] = "after_save"
    /\ calls' = [calls EXCEPT ![p] = Append(@, <<"after_save", AfterSaveArg(p), inTxn[p]>>)]
    /\ pc' = [pc EXCEPT ![p] = "in_after_save"]
    /\ UNCHANGED <<shared, req, verifyCalls, taskruns_list, klass, verified,
                   crosschecked, confidence, staged, inTxn, hookCreated, ret,
                   raised, response>>
    /\ UNCHANGED pure

\* AbstractTask.create_new_task, called by the hook
create_new_task(p) ==
    /\ pc[p] = "in_after_save"
    /\ hookCreated[p] < MaxFollowOn
    /\ hookCreated' = [hookCreated EXCEPT ![p] = @ + 1]
    /\ IF DEV_ROTATE_TASKS
       THEN created' = created
       ELSE created' = [created EXCEPT ![TaskOf(p)] = @ + 1]
    /\ UNCHANGED <<DEV_ROTATE_TASKS, taskType, taskruns, db, rejected, nreq, pc, req,
                   verifyCalls, taskruns_list, klass, verified, crosschecked,
                   confidence, staged, inTxn, calls, ret, raised, response>>
    /\ UNCHANGED pure

\* after_save returns, verify_and_save returns True out of the atomic block,
\* which commits
after_save_returns(p) ==
    /\ pc[p] = "in_after_save"
    /\ db' = [db EXCEPT ![TaskOf(p)] = @ \o staged[p]]
    /\ staged' = [staged EXCEPT ![p] = <<>>]
    /\ inTxn' = [inTxn EXCEPT ![p] = FALSE]
    /\ ret' = [ret EXCEPT ![p] = "True"]
    /\ pc' = [pc EXCEPT ![p] = "post_return"]
    /\ UNCHANGED <<DEV_ROTATE_TASKS, taskType, taskruns, created, rejected, nreq, req,
                   verifyCalls, taskruns_list, klass, verified, crosschecked,
                   confidence, calls, hookCreated, raised, response>>
    /\ UNCHANGED pure

\* after_save raises
after_save_raises(p) ==
    /\ pc[p] = "in_after_save"
    /\ Propagate(p, "after_save")
    /\ UNCHANGED <<shared, req, verifyCalls, taskruns_list, klass, verified,
                   crosschecked, confidence, calls, hookCreated, ret>>
    /\ UNCHANGED pure

\* verify_task has returned: post answers HttpResponse("ok")
post_return(p) ==
    /\ pc[p] = "post_return"
    /\ response' = [response EXCEPT ![p] = "200"]
    /\ pc' = [pc EXCEPT ![p] = "idle"]
    /\ UNCHANGED <<shared, req, verifyCalls, taskruns_list, klass, verified,
                   crosschecked, confidence, staged, inTxn, calls, hookCreated,
                   ret, raised>>
    /\ UNCHANGED pure

Next ==
    \/ \E t \in TaskIds, i \in 1..Len(SubmissionPool) : SubmitTaskrun(t, i)
    \/ \E p \in Procs : WebhookTaskRunView_get(p)
    \/ \E p \in Procs, r \in Requests : WebhookTaskRunView_post(p, r)
    \/ \E p \in Procs : verify_task(p)
    \/ \E p \in Procs : verify_and_save(p)
    \/ \E p \in Procs : save_verified_data(p)
    \/ \E p \in Procs : save_verified_data_raises(p)
    \/ \E p \in Procs : after_save(p)
    \/ \E p \in Procs : create_new_task(p)
    \/ \E p \in Procs : after_save_returns(p)
    \/ \E p \in Procs : after_save_raises(p)
    \/ \E p \in Procs : post_return(p)

Spec == Init /\ [][Next]_vars

(***************************************************************************)
(* AbstractTask.cross_check, called on a task instance with a list of      *)
(* answers, as TaskProcessingTests does                                    *)
(***************************************************************************)
Shapes == {"scalar", "list", "flat", "nested"}

ListValues ==
    {List(<<Scalar(1), Scalar(2), Scalar(3)>>), List(<<Scalar(3), Scalar(2), Scalar(1)>>),
     List(<<Scalar(1), Scalar(2), Scalar(2), Scalar(3)>>), List(<<Scalar(7), Scalar(8)>>)}

\* the answers a volunteer may give, by the shape of the task's form
Answers(sh) ==
    CASE sh = "scalar" -> {Scalar(1), Scalar(2)}
      [] sh = "list" -> ListValues
      [] sh = "flat" -> {Dict([fld |-> Scalar(x), nr |-> Scalar(y)]) : x, y \in {1, 2}}
      [] sh = "nested" ->
            {Dict([fld |-> Scalar(x),
                   row |-> Dict([nr |-> Scalar(y), tags |-> List(t)])]) :
               x, y \in {1, 2},
               t \in {<<Scalar(1), Scalar(2)>>, <<Scalar(2), Scalar(1)>>,
                      <<Scalar(1), Scalar(3)>>}}

\* the instance is idle and fresh: nothing verified, nothing stored
CrossCheckInit ==
    /\ LifeInit
    /\ ~DEV_ROTATE_TASKS
    /\ \A t \in TaskIds : Resolves(taskType[t])
    /\ shape \in Shapes
    /\ entries = <<>>
    /\ returned = FALSE
    /\ result = <<None, 0>>
    /\ verifier_calls = {}
    /\ UnpackIdle
    /\ RotateIdle

\* one more answer is collected for the call
AddEntry(e) ==
    /\ Len(entries) < MaxEntries
    /\ entries' = Append(entries, e)
    /\ returned' = FALSE
    /\ result' = <<None, 0>>
    /\ verifier_calls' = {}
    /\ UNCHANGED <<life, shape, unpack, rotate>>

\* what a cross_check that sets the flag of the instance does to it
cross_check_sets_verified ==
    /\ verified' = [p \in Procs |-> cross_check(entries)[2] >= MIN_CONFIDENCE]
    /\ UNCHANGED <<shared, pc, req, verifyCalls, taskruns_list, klass,
                   crosschecked, confidence, staged, inTxn, calls, hookCreated,
                   ret, raised, response>>

\* what cross_check does to the instance and to what is stored: it assigns
\* no attribute and calls no hook
cross_check_effect == UNCHANGED life

\* task.cross_check(entries)
cross_check_call ==
    /\ ~returned
    /\ returned' = TRUE
    /\ result' = cross_check(entries)
    /\ verifier_calls' = VerifierCalls(entries, <<>>)
    /\ cross_check_effect
    /\ UNCHANGED <<shape, entries, unpack, rotate>>

NextCrossCheck ==
    \/ \E e \in Answers(shape) : AddEntry(e)
    \/ cross_check_call

SpecCrossCheck == CrossCheckInit /\ [][NextCrossCheck]_vars

(***************************************************************************)
(* unpack_post(post), as UnpackPostTest calls it                           *)
(***************************************************************************)
\* the fields a form may post: name and submitted values
PostFields ==
    LET row == <<"r", "o", "w">>
        fld == <<"f", "l", "d">>
        opts == <<"o", "p", "t", "s">>
    IN  << [key |-> FieldName(row, <<<<"1", "1">>, fld>>, FALSE), values |-> <<"v11">>],
           [key |-> FieldName(row, <<<<"2">>, fld>>, FALSE), values |-> <<"v2">>],
           [key |-> FieldName(row, <<<<"0">>, fld>>, FALSE), values |-> <<"v0">>],
           [key |-> FieldName(row, <<<<"0">>, opts, <<"0">>>>, FALSE), values |-> <<"a0">>],
           [key |-> FieldName(row, <<<<"0">>, opts, <<"1">>>>, FALSE), values |-> <<"a1">>],
           [key |-> FieldName(row, <<<<"1">>, opts, <<"0">>>>, FALSE), values |-> <<"b0">>],
           [key |-> FieldName(row, <<<<"1">>, opts, <<"1">>>>, FALSE), values |-> <<"b1">>],
           [key |-> FieldName(<<"n", "a", "m", "e">>, <<>>, FALSE), values |-> <<"x">>],
           [key |-> FieldName(<<"t", "a", "g", "s">>, <<>>, TRUE), values |-> <<"t">>],
           [key |-> FieldName(row, <<<<"b", "l", "a">>, fld>>, FALSE), values |-> <<"vbla">>],
           [key |-> FieldName(row, <<<<"2", "n", "d">>, fld>>, FALSE), values |-> <<"v2nd">>],
           [key |-> FieldName(<<"f", "i", "l", "e", "s">>, <<>>, FALSE), values |-> <<"p", "q">>],
           [key |-> FieldName(row, <<<<"0">>>>, FALSE) \o fld, values |-> <<"bad">>] >>

\* a form posts some of the fields, in some order
Orders(S) ==
    {o \in [1..Cardinality(S) -> S] :
         \A a, b \in 1..Cardinality(S) : a # b => o[a] # o[b]}
Posts ==
    UNION {{[j \in 1..Cardinality(S) |-> PostFields[o[j]]] : o \in Orders(S)} :
           S \in {S \in SUBSET (1..Len(PostFields)) : Cardinality(S) <= MaxFields}}

\* the entry an earlier submission has saved
EarlierEntry == Dict([k \in {<<"n", "a", "m", "e">>} |-> Scalar("x")])

\* TaskView.post has reached data = unpack_post(request.POST)
UnpackInit ==
    /\ LifeInit
    /\ ~DEV_ROTATE_TASKS
    /\ \A t \in TaskIds : taskType[t] = "moonsheep.tests.DummyTask"
    /\ CrossCheckIdle
    /\ post \in Posts
    /\ upc = "loop"
    /\ nkeys = 0
    /\ tree = Dict(<<>>)
    /\ convert_to_array_paths = {}
    /\ unpacked = None
    /\ Entry = <<EarlierEntry>>
    /\ RotateIdle

\* for k in post.keys(): one round of the loop
unpack_post_key ==
    /\ upc = "loop"
    /\ nkeys < Len(post)
    /\ LET k == post[nkeys + 1].key
           m == re_search(k)
       IN  IF ~m.matched
           THEN /\ unpacked' = Raise("Exception")
                /\ upc' = "done"
                /\ UNCHANGED <<nkeys, tree, convert_to_array_paths>>
           ELSE /\ convert_to_array_paths' = convert_to_array_paths \cup ArrayPathsOf(m)
                /\ tree' = new(tree, PathOf(m), get_list_or_value(post[nkeys + 1].values, m))
                /\ nkeys' = nkeys + 1
                /\ UNCHANGED <<upc, unpacked>>
    /\ UNCHANGED <<life, crosscheck, rotate, post, Entry>>

\* the loop over the keys is over
unpack_post_keys_done ==
    /\ upc = "loop"
    /\ nkeys = Len(post)
    /\ upc' = "convert"
    /\ UNCHANGED <<life, crosscheck, rotate, post, nkeys, tree, convert_to_array_paths,
                   unpacked, Entry>>

\* for path_to_d in convert_to_array_paths: one round, for whichever path
\* the iteration over the set yields next
unpack_post_convert(path_to_d) ==
    /\ upc = "convert"
    /\ path_to_d \in convert_to_array_paths
    /\ convert_to_array_paths' = convert_to_array_paths \ {path_to_d}
    /\ LET converted == convert(tree, path_to_d)
       IN  IF converted.kind = "raise"
           THEN /\ unpacked' = converted
                /\ upc' = "done"
                /\ tree' = tree
           ELSE /\ tree' = converted
                /\ UNCHANGED <<upc, unpacked>>
    /\ UNCHANGED <<life, crosscheck, rotate, post, nkeys, Entry>>

\* return result
unpack_post_return ==
    /\ upc = "convert"
    /\ convert_to_array_paths = {}
    /\ unpacked' = tree
    /\ upc' = "done"
    /\ UNCHANGED <<life, crosscheck, rotate, post, nkeys, tree, convert_to_array_paths, Entry>>

\* a post that saves an entry although unpack_post raised
SavedData_despite_exception == IF unpacked.kind = "raise" THEN {Dict(<<>>)} ELSE {unpacked}

\* TaskView.post: the data handed to _save_entry, if post gets that far: an
\* exception of unpack_post leaves post
SavedData == IF unpacked.kind = "raise" THEN {} ELSE {unpacked}

\* TaskView.post: self._save_entry(data)
TaskView_save_entry ==
    /\ upc = "done"
    /\ \E data \in SavedData : Entry' = Append(Entry, data)
    /\ upc' = "saved"
    /\ UNCHANGED <<life, crosscheck, rotate, post, nkeys, tree, convert_to_array_paths, unpacked>>

NextUnpack ==
    \/ unpack_post_key
    \/ unpack_post_keys_done
    \/ \E path_to_d \in convert_to_array_paths : unpack_post_convert(path_to_d)
    \/ unpack_post_return
    \/ TaskView_save_entry

SpecUnpack == UnpackInit /\ [][NextUnpack]_vars

(***************************************************************************)
(* TaskView.get_random_mocked_task_data(), called by _get_new_task when    *)
(* DEV_ROTATE_TASKS is set, by request threads that share the class        *)
(* attribute __mocked_task_counter                                         *)
(***************************************************************************)
\* the i-th task type the application has registered
TaskType(i) == <<"app.tasks.Task", i>>
NoTaskType == <<"", 0>>

\* registry.TASK_TYPES after the application's tasks were imported
Registries == {[i \in 1..n |-> TaskType(i)] : n \in 0..MaxTypes}

\* a test that lets the counter reach the length of the list
CounterIsPastEnd_late(counter, defined_tasks) == counter > Len(defined_tasks)

\* if TaskView.__mocked_task_counter >= len(defined_tasks)
CounterIsPastEnd(counter, defined_tasks) == counter >= Len(defined_tasks)

\* TaskView._get_new_task is about to call get_random_mocked_task_data()
RotateInit ==
    /\ LifeInit
    /\ DEV_ROTATE_TASKS
    /\ \A t \in TaskIds : taskType[t] = "moonsheep.tests.DummyTask"
    /\ CrossCheckIdle
    /\ UnpackIdle
    /\ TASK_TYPES \in Registries
    /\ mocked_task_counter = 0
    /\ rpc = [t \in Procs |-> "idle"]
    /\ loaded = [t \in Procs |-> 0]
    /\ overlapped = [t \in Procs |-> FALSE]
    /\ ncalls = 0
    /\ rotated = <<>>

\* the call ends: the task data of the type, or the exception, goes to the
\* caller
Returns(t, type, exception) ==
    /\ rotated' = Append(rotated, [type |-> type, raised |-> exception,
                                   overlapped |-> overlapped'[t]])
    /\ rpc' = [rpc EXCEPT ![t] = "idle"]

\* a thread enters the call with task_type None: defined_tasks is read, and
\* NotImplementedError is raised if it is empty
get_random_mocked_task_data(t) ==
    /\ rpc[t] = "idle"
    /\ ncalls < MaxCalls
    /\ ncalls' = ncalls + 1
    /\ overlapped' = [u \in Procs |->
                         IF u = t THEN \E v \in Procs \ {t} : rpc[v] # "idle"
                         ELSE overlapped[u] \/ rpc[u] # "idle"]
    /\ IF TASK_TYPES = <<>>
       THEN Returns(t, NoTaskType, "NotImplementedError")
       ELSE /\ rpc' = [rpc EXCEPT ![t] = "load"]
            /\ rotated' = rotated
    /\ UNCHANGED <<life, crosscheck, unpack, TASK_TYPES, mocked_task_counter, loaded>>

\* TaskView.__mocked_task_counter += 1: the attribute is read
load_counter(t) ==
    /\ rpc[t] = "load"
    /\ loaded' = [loaded EXCEPT ![t] = mocked_task_counter]
    /\ rpc' = [rpc EXCEPT ![t] = "store"]
    /\ UNCHANGED <<life, crosscheck, unpack, TASK_TYPES, mocked_task_counter,
                   overlapped, ncalls, rotated>>

\* TaskView.__mocked_task_counter += 1: the sum is stored
store_counter(t) ==
    /\ rpc[t] = "store"
    /\ mocked_task_counter' = loaded[t] + 1
    /\ rpc' = [rpc EXCEPT ![t] = "if"]
    /\ UNCHANGED <<life, crosscheck, unpack, TASK_TYPES, loaded, overlapped,
                   ncalls, rotated>>

\* if TaskView.__mocked_task_counter >= len(defined_tasks)
if_counter_past_end(t) ==
    /\ rpc[t] = "if"
    /\ rpc' = [rpc EXCEPT ![t] =
                  IF CounterIsPastEnd(mocked_task_counter, TASK_TYPES)
                  THEN "reset" ELSE "index"]
    /\ UNCHANGED <<life, crosscheck, unpack, TASK_TYPES, mocked_task_counter,
                   loaded, overlapped, ncalls, rotated>>

\* TaskView.__mocked_task_counter = 0
reset_counter(t) ==
    /\ rpc[t] = "reset"
    /\ mocked_task_counter' = 0
    /\ rpc' = [rpc EXCEPT ![t] = "index"]
    /\ UNCHANGED <<life, crosscheck, unpack, TASK_TYPES, loaded, overlapped,
                   ncalls, rotated>>

\* task_type = defined_tasks[TaskView.__mocked_task_counter], and the rest
\* of the call, which builds the task data of the type
index_defined_tasks(t) ==
    /\ rpc[t] = "index"
    /\ overlapped' = overlapped
    /\ IF mocked_task_counter < Len(TASK_TYPES)
       THEN Returns(t, TASK_TYPES[mocked_task_counter + 1], "none")
       ELSE Returns(t, NoTaskType, "IndexError")
    /\ UNCHANGED <<life, crosscheck, unpack, TASK_TYPES, mocked_task_counter,
                   loaded, ncalls>>

NextRotate ==
    \/ \E t \in Procs : get_random_mocked_task_data(t)
    \/ \E t \in Procs : load_counter(t)
    \/ \E t \in Procs : store_counter(t)
    \/ \E t \in Procs : if_counter_past_end(t)
    \/ \E t \in Procs : reset_counter(t)
    \/ \E t \in Procs : index_defined_tasks(t)

SpecRotate == RotateInit /\ [][NextRotate]_vars

(***************************************************************************)
(* Vocabulary of the properties                                            *)
(***************************************************************************)
\* verify_and_save has cross-checked the answers of the handler's request
Evaluated(p) ==
    /\ verifyCalls[p] # <<>>
    /\ klass[p] # NoClass
    /\ pc[p] \notin {"verify_task", "verify_and_save"}

\* verify_and_save has returned or raised
Finished(p) ==
    /\ verifyCalls[p] # <<>>
    /\ klass[p] # NoClass
    /\ pc[p] \in {"post_return", "idle"}

\* the hook was invoked by the handler's verify_and_save
Invoked(p, hook) == \E i \in 1..Len(calls[p]) : calls[p][i][1] = hook

\* from reading the task runs to the end of the state transition
InCritical(p) ==
    pc[p] \in {"verify_and_save", "save_verified_data", "after_save", "in_after_save"}

(***************************************************************************)
(* Idempotence, atomicity, serialization                                   *)
(***************************************************************************)
\* C1: whatever the sequence of notifications for a task, its verified
\* result is committed at most once (a commit is one save_verified_data
\* together with one completed after_save).
C1_CommittedAtMostOnce == \A t \in TaskIds : Len(db[t]) <= 1

\* C2: when after_save raises after save_verified_data staged the result,
\* no verified result becomes observable and the instance's verified flag
\* is what it was before the attempt.
C2_HookFailureLeavesTaskUnchanged ==
    [][\A p \in Procs :
          after_save_raises(p) => (db' = db /\ verified'[p] = InitVerified)]_vars

\* C3: two handlers never are, for the same task, between reading its task
\* runs and the end of the state transition at the same time.
C3_VerificationsSerialized ==
    \A p, q \in Procs :
        (p # q /\ InCritical(p) /\ InCritical(q)) => TaskOf(p) # TaskOf(q)

\* C4: whenever no transaction is open, tasks created by after_save exist in
\* PyBossa only if the parent's verified result is committed.
C4_FollowOnOnlyIfCommitted ==
    \A t \in TaskIds :
        (\A p \in Procs : ~inTxn[p]) => (created[t] > 0 => Len(db[t]) > 0)

(***************************************************************************)
(* The verification attempt                                                *)
(***************************************************************************)
\* C5: an attempt that read fewer than two answers has confidence 0 and no
\* resolved value, leaves the flag False, invokes no hook, stages nothing
\* and returns False.
C5_TooFewAnswersNeverVerify ==
    \A p \in Procs :
        (Evaluated(p) /\ Len(taskruns_list[p]) < 2) =>
            /\ confidence[p] = 0
            /\ crosschecked[p] = None
            /\ ~verified[p]
            /\ calls[p] = <<>>
            /\ staged[p] = <<>>
            /\ ret[p] = "False"
            /\ raised[p] = "none"

\* an attempt on exactly one answer has returned and the request is answered
C5_Witness ==
    \E p \in Procs :
        /\ Evaluated(p)
        /\ Len(taskruns_list[p]) = 1
        /\ response[p] = "200"

\* C6 as stated: once verify_and_save is over, both hooks were invoked and
\* True was returned if and only if confidence >= MIN_CONFIDENCE, and
\* otherwise no hook was invoked and False was returned.
C6_Original ==
    \A p \in Procs :
        Finished(p) =>
            /\ (confidence[p] >= MIN_CONFIDENCE) <=>
                   (/\ Invoked(p, "save_verified_data")
                    /\ Invoked(p, "after_save")
                    /\ ret[p] = "True")
            /\ (confidence[p] < MIN_CONFIDENCE) =>
                   (calls[p] = <<>> /\ ret[p] = "False")

\* C6 amended: the flag is True and save_verified_data is invoked exactly
\* when confidence >= MIN_CONFIDENCE; after_save is invoked exactly when, in
\* addition, save_verified_data did not raise; True is returned exactly
\* when, in addition, neither hook raised; False is returned exactly when
\* confidence < MIN_CONFIDENCE, and then no hook is invoked.
C6_VerifiedIffConfident ==
    \A p \in Procs :
        Finished(p) =>
            /\ verified[p] <=> (confidence[p] >= MIN_CONFIDENCE)
            /\ Invoked(p, "save_verified_data") <=> (confidence[p] >= MIN_CONFIDENCE)
            /\ Invoked(p, "after_save") <=>
                   (confidence[p] >= MIN_CONFIDENCE /\ raised[p] # "save_verified_data")
            /\ (ret[p] = "True") <=>
                   (confidence[p] >= MIN_CONFIDENCE /\ raised[p] = "none")
            /\ (ret[p] = "False") <=> (confidence[p] < MIN_CONFIDENCE)
            /\ (confidence[p] < MIN_CONFIDENCE) => calls[p] = <<>>

\* a confident attempt has returned True, another attempt is over below
\* the threshold
C6_Witness ==
    \E p, q \in Procs :
        /\ Finished(p) /\ confidence[p] >= MIN_CONFIDENCE /\ ret[p] = "True"
        /\ Finished(q) /\ confidence[q] < MIN_CONFIDENCE /\ ret[q] = "False"

\* C7: after_save is only ever invoked second, after save_verified_data has
\* returned, inside the transaction in which save_verified_data staged the
\* result; a verification that returned True invoked save_verified_data and
\* then after_save, once each, inside the atomic block, both with the
\* resolved value of cross_check.
C7_SaveThenAfterSaveInOneTransaction ==
    \A p \in Procs :
        /\ \A i \in 1..Len(calls[p]) :
               calls[p][i][1] = "after_save" =>
                   /\ i = 2
                   /\ calls[p][1][1] = "save_verified_data"
                   /\ calls[p][1][3] /\ calls[p][2][3]
        /\ pc[p] \in {"after_save", "in_after_save"} =>
               (inTxn[p] /\ staged[p] = <<calls[p][1][2]>>)
        /\ ret[p] = "True" =>
               LET cc == cross_check(taskruns_list[p])[1]
               IN  calls[p] = << <<"save_verified_data", cc, TRUE>>,
                                 <<"after_save", cc, TRUE>> >>

\* a verification of two answers that differ in the order of a sequence has
\* returned True
C7_Witness ==
    \E p \in Procs :
        /\ ret[p] = "True"
        /\ Len(calls[p]) = 2
        /\ taskruns_list[p][1] # taskruns_list[p][2]

\* C8: when save_verified_data raises, after_save is not invoked, nothing
\* is persisted and the task is not Verified.
C8_SaveFailureLeavesTaskOpen ==
    [][\A p \in Procs :
          save_verified_data_raises(p) =>
              /\ db' = db
              /\ staged'[p] = <<>>
              /\ \A i \in 1..Len(calls'[p]) : calls'[p][i][1] # "after_save"
              /\ ~verified'[p]]_vars

\* C9: an attempt whose confidence is below MIN_CONFIDENCE invokes no hook,
\* stages nothing and returns False; and on a task that had such an attempt,
\* an attempt that reads agreeing answers and whose hooks do not raise still
\* sets the flag, commits the resolved value and returns True.
C9_RejectedStaysOpen ==
    \A p \in Procs :
        /\ (Evaluated(p) /\ confidence[p] < MIN_CONFIDENCE) =>
               /\ rejected[TaskOf(p)]
               /\ calls[p] = <<>>
               /\ staged[p] = <<>>
               /\ ~inTxn[p]
               /\ ret[p] = "False"
        /\ (/\ Finished(p)
            /\ rejected[TaskOf(p)]
            /\ cross_check(taskruns_list[p])[2] >= MIN_CONFIDENCE
            /\ raised[p] = "none") =>
               /\ verified[p]
               /\ ret[p] = "True"
               /\ \E i \in 1..Len(db[TaskOf(p)]) :
                      db[TaskOf(p)][i] = cross_check(taskruns_list[p])[1]

\* a task that had an attempt below the threshold is verified by a later one
C9_Witness ==
    \E p, q \in Procs :
        /\ Finished(q) /\ ret[q] = "False"
        /\ Len(taskruns_list[q]) < Len(taskruns_list[p])
        /\ Finished(p) /\ TaskOf(p) = TaskOf(q)
        /\ rejected[TaskOf(p)]
        /\ ret[p] = "True"
        /\ db[TaskOf(p)] # <<>>

(***************************************************************************)
(* The webhook                                                             *)
(***************************************************************************)
\* C10 as stated: a well-formed notification that was served called
\* verify_task exactly once, with its two identifiers, and was answered 200.
C10_Original ==
    \A p \in Procs :
        (WellFormed(req[p]) /\ pc[p] = "idle") =>
            /\ verifyCalls[p] = << <<req[p].project_id, req[p].task_id>> >>
            /\ response[p] = "200"

\* C10 amended: a well-formed notification calls verify_task exactly once,
\* with its two identifiers, and is never answered 400; it is not answered
\* before verify_task is over; it is answered 200 exactly when verify_task
\* returned, and when the creation of the task instance, save_verified_data
\* or after_save raised the exception leaves post instead.
C10_OneAttemptPerNotification ==
    \A p \in Procs :
        WellFormed(req[p]) =>
            /\ verifyCalls[p] = << <<req[p].project_id, req[p].task_id>> >>
            /\ response[p] # "400"
            /\ pc[p] # "idle" => response[p] = "none"
            /\ pc[p] = "idle" =>
                   /\ (response[p] = "200") <=> (raised[p] = "none")
                   /\ (response[p] = "exception") <=> (raised[p] # "none")
            /\ response[p] = "200" => ret[p] \in {"True", "False"}

\* a well-formed notification was answered 200 after a verification
C10_Witness ==
    \E p \in Procs :
        /\ WellFormed(req[p])
        /\ response[p] = "200"
        /\ Len(verifyCalls[p]) = 1
        /\ ret[p] = "True"

C12_UnknownTypeIsFatal ==
    \A p \in Procs :
        (verifyCalls[p] # <<>> /\ pc[p] # "verify_task") =>
            IF Resolves(taskType[TaskOf(p)])
            THEN /\ klass[p] = taskType[TaskOf(p)]
                 /\ raised[p] # "create_task_instance"
            ELSE /\ klass[p] = NoClass
                 /\ raised[p] = "create_task_instance"
                 /\ pc[p] = "idle"
                 /\ response[p] = "exception"
                 /\ crosschecked[p] = None
                 /\ confidence[p] = 0
                 /\ ~verified[p]
                 /\ calls[p] = <<>>
                 /\ staged[p] = <<>>
                 /\ ret[p] = "none"
                 /\ db[TaskOf(p)] = <<>>

\* a notification for a task of an unknown type that has two agreeing
\* answers ended in the failed creation of the instance
C12_Witness ==
    \E p \in Procs :
        /\ verifyCalls[p] # <<>>
        /\ ~Resolves(taskType[TaskOf(p)])
        /\ raised[p] = "create_task_instance"
        /\ Len(taskruns_list[p]) = 2
        /\ taskruns_list[p][1] = taskruns_list[p][2]

(***************************************************************************)
(* Consensus                                                               *)
(***************************************************************************)
\* two answers agree: scalars are identical, sequences hold the same
\* elements, mappings agree in every field
RECURSIVE Agree(_, _)
Agree(a, b) ==
    CASE a.kind = "dict" -> \A k \in DOMAIN a.val : Agree(a.val[k], b.val[k])
      [] a.kind = "list" -> \A x \in {1, 2, 3, 7, 8} :
                                (\E i \in 1..Len(a.val) : a.val[i] = Scalar(x))
                                    <=> (\E j \in 1..Len(b.val) : b.val[j] = Scalar(x))
      [] OTHER -> a.val = b.val

\* the value of an answer at a position
RECURSIVE At(_, _)
At(v, path) == IF path = <<>> THEN v ELSE At(v.val[Head(path)], Tail(path))

\* C13: cross_check on two answers made of scalars returns confidence 1 and
\* the shared value when the answers are identical, and confidence 0 and no
\* value when they differ in a scalar.
C13_ScalarUnanimity ==
    (returned /\ Len(entries) = 2 /\ shape \in {"scalar", "flat"}) =>
        IF entries[1] = entries[2]
        THEN result = <<entries[1], 1>>
        ELSE result = <<None, 0>>

\* cross_check returned for two mappings that differ in one of two scalars
C13_Witness ==
    /\ returned /\ Len(entries) = 2 /\ shape = "flat"
    /\ entries[1].val.fld = entries[2].val.fld
    /\ entries[1].val.nr # entries[2].val.nr
    /\ result[2] = 0

\* C14: cross_check on two sequences returns confidence 1 and the first
\* answer's sequence when both hold the same elements, whatever their order
\* and multiplicity, and confidence 0 and no value otherwise.
C14_SequencesAsSets ==
    (returned /\ Len(entries) = 2 /\ shape = "list") =>
        IF \A x \in {1, 2, 3, 7, 8} :
               (\E i \in 1..Len(entries[1].val) : entries[1].val[i] = Scalar(x))
                   <=> (\E j \in 1..Len(entries[2].val) : entries[2].val[j] = Scalar(x))
        THEN result = <<entries[1], 1>>
        ELSE result = <<None, 0>>

\* cross_check returned the first answer for [1,2,2,3] against [3,2,1]
C14_Witness ==
    /\ returned /\ shape = "list"
    /\ entries = <<List(<<Scalar(1), Scalar(2), Scalar(2), Scalar(3)>>),
                   List(<<Scalar(3), Scalar(2), Scalar(1)>>)>>
    /\ result = <<entries[1], 1>>

\* C15: with two or more answers the confidence is 1 exactly when every
\* answer agrees with every other one, and otherwise the confidence is 0 and
\* there is no value, wherever the dissenting answer stands.
C15_AllAnswersCompared ==
    (returned /\ Len(entries) >= 2) =>
        /\ result[2] = 1 <=>
               \A i, j \in 1..Len(entries) : Agree(entries[i], entries[j])
        /\ result[2] # 1 => result = <<None, 0>>

\* cross_check found no consensus where only the last of three answers
\* dissents
C15_Witness ==
    /\ returned /\ Len(entries) = 3
    /\ Agree(entries[1], entries[2])
    /\ ~Agree(entries[1], entries[3])
    /\ result = <<None, 0>>

\* C16: for mappings the confidence is the minimum of the confidences of
\* the fields, each verified on its own and recursively, so that it is 1 only
\* if the answers agree at every position at every depth.
C16_MinimumOfFields ==
    (returned /\ Len(entries) >= 2 /\ shape \in {"flat", "nested"}) =>
        LET fields == DOMAIN entries[1].val
            conf(k) == cross_check([i \in 1..Len(entries) |-> entries[i].val[k]])[2]
            leaves == {pos \in {<<"fld">>, <<"nr">>, <<"row", "nr">>, <<"row", "tags">>} :
                          /\ pos[1] \in fields
                          /\ Len(pos) = 2 => entries[1].val[pos[1]].kind = "dict"}
        IN  /\ \A k \in fields : result[2] <= conf(k)
            /\ \E k \in fields : result[2] = conf(k)
            /\ result[2] = 1 <=>
                   \A pos \in leaves : \A i \in 1..Len(entries) :
                       Agree(At(entries[1], pos), At(entries[i], pos))

\* cross_check found no consensus where the answers differ in one field of
\* the nested mapping only
C16_Witness ==
    /\ returned /\ Len(entries) = 2 /\ shape = "nested"
    /\ entries[1].val.fld = entries[2].val.fld
    /\ Agree(entries[1].val.row.val.tags, entries[2].val.row.val.tags)
    /\ entries[1].val.row.val.nr # entries[2].val.row.val.nr
    /\ result = <<None, 0>>

C18_CrossCheckIsPure ==
    [][cross_check_call =>
          /\ verified' = verified
          /\ db' = db /\ staged' = staged
          /\ created' = created /\ taskruns' = taskruns
          /\ calls' = calls]_vars

\* cross_check returned full confidence and the instance is not verified
C18_Witness ==
    /\ returned /\ result[2] >= MIN_CONFIDENCE
    /\ \A p \in Procs : ~verified[p] /\ calls[p] = <<>>
    /\ \A t \in TaskIds : db[t] = <<>>

(***************************************************************************)
(* The field unpacker                                                      *)
(***************************************************************************)
\* the parsed names of the posted fields
Matches == {re_search(post[i].key) : i \in 1..Len(post)}
\* the paths the loop records for the post-pass
RecordedPaths == UNION {ArrayPathsOf(m) : m \in Matches}

\* the tree after the loop has taken the given fields, lowest position in
\* PostFields first
RECURSIVE LoopOver(_, _)
LoopOver(fields, obj) ==
    IF fields = {} THEN obj
    ELSE LET f == CHOOSE f \in fields :
                      \A g \in fields :
                          (CHOOSE i \in 1..Len(PostFields) : PostFields[i] = f)
                              <= (CHOOSE j \in 1..Len(PostFields) : PostFields[j] = g)
             m == re_search(f.key)
         IN  LoopOver(fields \ {f}, new(obj, PathOf(m), get_list_or_value(f.values, m)))

\* the outcome of a post-pass that converts the longest paths first
RECURSIVE InnerFirst(_, _)
InnerFirst(obj, paths) ==
    IF paths = {} THEN obj
    ELSE LET path_to_d == CHOOSE x \in paths : \A y \in paths : Len(x) >= Len(y)
             converted == convert(obj, path_to_d)
         IN  IF converted.kind = "raise" THEN converted
             ELSE InnerFirst(converted, paths \ {path_to_d})

\* C19: whatever the order of the keys of a form of valid names and
\* whatever the order in which the post-pass takes the recorded paths,
\* unpack_post ends with one and the same outcome for one and the same set
\* of fields: the one it has with the fields in their order in PostFields
\* and inner levels converted before outer ones.
C19_UnpackIsDeterministic ==
    (upc = "done" /\ \A m \in Matches : m.matched) =>
        unpacked = InnerFirst(LoopOver({post[i] : i \in 1..Len(post)}, Dict(<<>>)),
                              RecordedPaths)

\* the number of distinct first indices of the object of m below m's own
Rank(m) ==
    1 + Cardinality({int(n.selectors[1]) :
                        n \in {n \in Matches :
                                  /\ n.object = m.object
                                  /\ n.selectors # <<>>
                                  /\ int(n.selectors[1]) < int(m.selectors[1])}})

\* C20: when all the indices of a level are integers, the level is a
\* sequence in the order of the numeric values of the indices: a field
\* object[i][name] is found under name in the element whose position is the
\* rank of i among the indices posted for the object, and a form of valid
\* names whose indices that start with a digit are all at the first level,
\* where all indices are integers, always gets its tree.
C20_SequenceInNumericOrder ==
    upc = "done" =>
        /\ (\A m \in Matches :
               /\ m.matched
               /\ \A j \in 1..Len(m.selectors) :
                      match_digits(m.selectors[j]) =>
                          /\ j = 1
                          /\ \A n \in Matches :
                                 n.object = m.object =>
                                     (n.selectors # <<>> /\ IsInt(n.selectors[1])))
               => unpacked.kind = "dict"
        /\ unpacked.kind = "dict" =>
               \A i \in 1..Len(post) :
                   LET m == re_search(post[i].key)
                   IN  (Len(m.selectors) = 2 /\ IsInt(m.selectors[1])) =>
                           /\ unpacked.val[m.object].kind = "list"
                           /\ Rank(m) <= Len(unpacked.val[m.object].val)
                           /\ unpacked.val[m.object].val[Rank(m)].val[m.selectors[2]]
                                  = Scalar(post[i].values[1])

\* the rows 11, 2 and 0, posted in this order, are returned as the
\* sequence of the rows 0, 2 and 11
C20_Witness ==
    /\ upc = "done"
    /\ post = <<PostFields[1], PostFields[2], PostFields[3]>>
    /\ unpacked =
           Dict([k \in {<<"r", "o", "w">>} |->
                    List(<<Dict([f \in {<<"f", "l", "d">>} |-> Scalar("v0")]),
                           Dict([f \in {<<"f", "l", "d">>} |-> Scalar("v2")]),
                           Dict([f \in {<<"f", "l", "d">>} |-> Scalar("v11")])>>)])

\* the first indices posted for an object
IndicesOf(object) ==
    {n.selectors[1] : n \in {n \in Matches : n.object = object /\ n.selectors # <<>>}}

\* C21: in a tree unpack_post returns, the sequence made of a level of
\* integer indices has exactly as many elements as distinct indices were
\* posted for the level, and none of them is a placeholder.
C21_GapsAreNotFilled ==
    (upc \in {"done", "saved"} /\ unpacked.kind = "dict") =>
        \A m \in Matches :
            (m.selectors # <<>> /\ IsInt(m.selectors[1])) =>
                /\ unpacked.val[m.object].kind = "list"
                /\ Len(unpacked.val[m.object].val) = Cardinality(IndicesOf(m.object))
                /\ \A i \in 1..Len(unpacked.val[m.object].val) :
                       unpacked.val[m.object].val[i] # None

\* the rows 0 and 2 are returned as a sequence of two elements
C21_Witness ==
    /\ upc = "done"
    /\ post = <<PostFields[3], PostFields[2]>>
    /\ unpacked.kind = "dict"
    /\ Len(unpacked.val[<<"r", "o", "w">>].val) = 2

\* an object of the form has a first index that is an integer and one that
\* is not
Mixed(object) ==
    /\ \E k \in IndicesOf(object) : IsInt(k)
    /\ \E k \in IndicesOf(object) : ~IsInt(k)

LeafOf(obj, i) == get(obj, PathOf(re_search(post[i].key))).node

\* the leaf is the one value of the field, bare, exactly when the name has
\* no trailing brackets and the field has one value; otherwise it is the
\* sequence of the values of the field in the order they were posted
ShapedAsPosted(leaf, i) ==
    LET values == post[i].values
        single == Len(values) = 1 /\ ~re_search(post[i].key).trailing_brackets
    IN  /\ leaf.kind = "scalar" <=> single
        /\ single => leaf.val = values[1]
        /\ ~single =>
               /\ leaf.kind = "list"
               /\ Len(leaf.val) = Len(values)
               /\ \A j \in 1..Len(values) : leaf.val[j] = Scalar(values[j])

\* C24: every leaf the loop has written, and every leaf of a name without
\* index in the tree unpack_post returns, is a bare scalar exactly when the
\* name has no trailing brackets and one value was posted, and the sequence
\* of all posted values in their order otherwise.
C24_LeafShape ==
    /\ upc = "loop" =>
           \A i \in 1..nkeys : ShapedAsPosted(LeafOf(tree, i), i)
    /\ (upc \in {"done", "saved"} /\ unpacked.kind = "dict") =>
           \A i \in 1..Len(post) :
               re_search(post[i].key).selectors = <<>> =>
                   ShapedAsPosted(unpacked.val[re_search(post[i].key).object], i)

\* name, tags[] and files were posted: a scalar, a sequence of one and a
\* sequence of two are returned
C24_Witness ==
    /\ upc = "done"
    /\ post = <<PostFields[8], PostFields[9], PostFields[12]>>
    /\ unpacked.kind = "dict"
    /\ unpacked.val[<<"n", "a", "m", "e">>] = Scalar("x")
    /\ unpacked.val[<<"t", "a", "g", "s">>] = List(<<Scalar("t")>>)
    /\ unpacked.val[<<"f", "i", "l", "e", "s">>] = List(<<Scalar("p"), Scalar("q")>>)

\* a name of the form does not match the grammar of field names
Malformed == \E i \in 1..Len(post) : ~re_search(post[i].key).matched

IntegerLevelsOnly ==
    \A m \in Matches :
        /\ m.matched
        /\ m.selectors # <<>> =>
               /\ Len(m.selectors) \in {2, 3}
               /\ IsInt(m.selectors[1])
               /\ ~match_digits(m.selectors[2])
               /\ Len(m.selectors) = 3 => IsInt(m.selectors[3])

\* C27: a form whose indexed levels have integer indices only, at the first
\* level and below an element of it, is unpacked with every such level a
\* sequence, the nested ones too, and with the identifier level between
\* them a mapping.
C27_EveryIntegerLevelIsSequence ==
    (upc = "done" /\ IntegerLevelsOnly) =>
        /\ unpacked.kind = "dict"
        /\ \A m \in Matches :
               m.selectors # <<>> =>
                   /\ unpacked.val[m.object].kind = "list"
                   /\ Rank(m) <= Len(unpacked.val[m.object].val)
                   /\ unpacked.val[m.object].val[Rank(m)].kind = "dict"
                   /\ Len(m.selectors) = 3 =>
                          unpacked.val[m.object].val[Rank(m)].val[m.selectors[2]].kind
                              = "list"

\* C28: an index counts as an integer exactly when the whole of it is
\* decimal digits: the loop records a level for the post-pass exactly when
\* the index below it is all digits, and a form of valid names none of
\* whose indices is all digits (2nd is none) is unpacked with every indexed
\* level a mapping that has every posted index.
C28_IntegerIffAllDigits ==
    /\ upc = "loop" =>
           convert_to_array_paths =
               UNION {LET m == re_search(post[i].key)
                      IN  {SubSeq(PathOf(m), 1, j) :
                              j \in {j \in 1..Len(m.selectors) : IsInt(m.selectors[j])}} :
                      i \in 1..nkeys}
    /\ (/\ upc = "done"
        /\ \A m \in Matches :
               m.matched /\ \A j \in 1..Len(m.selectors) : ~IsInt(m.selectors[j])) =>
           /\ unpacked.kind = "dict"
           /\ \A m \in Matches :
                  m.selectors # <<>> =>
                      /\ unpacked.val[m.object].kind = "dict"
                      /\ DOMAIN unpacked.val[m.object].val = IndicesOf(m.object)

\* C29: once verify_and_save has returned or raised, the verified flag of
\* the task instance is True only if save_verified_data and after_save were
\* both invoked and neither raised, so that the result is committed.
C29_FlagOnlyAfterBothHooks ==
    \A p \in Procs :
        (Finished(p) /\ verified[p]) =>
            /\ Invoked(p, "save_verified_data")
            /\ Invoked(p, "after_save")
            /\ raised[p] = "none"
            /\ ret[p] = "True"

\* a step that ends the transaction of p without a commit and reports the
\* attempt as not verified
TimesOut(p) ==
    /\ inTxn[p]
    /\ ~inTxn'[p]
    /\ db' = db
    /\ ret'[p] = "False"
    /\ ~verified'[p]

\* C26: the commit of the atomic block is bounded by a timeout: while the
\* block of a handler waits for after_save to return and the commit to be
\* made, the handler can leave the block without the commit, reporting the
\* attempt as not verified.
C26_CommitBoundedByTimeout ==
    \A p \in Procs :
        pc[p] = "in_after_save" => ENABLED (Next /\ TimesOut(p))

\* no thread is in a call of get_random_mocked_task_data
Quiescent == \A t \in Procs : rpc[t] = "idle"

\* the calls i .. i + n - 1 of the history ran one after another, no other
\* call running during any of them
Consecutive(i, n) ==
    /\ i + n - 1 <= Len(rotated)
    /\ \A j \in i..(i + n - 1) : ~rotated[j].overlapped

\* C30: with task types registered, the shared counter is a valid index
\* into their list whenever no call is running, a call that ran alone
\* raises nothing, and of as many consecutive calls as there are
\* registered types exactly one returns each type.
C30_RotatesThroughAllTypes ==
    TASK_TYPES # <<>> =>
        /\ Quiescent =>
               (0 <= mocked_task_counter /\ mocked_task_counter < Len(TASK_TYPES))
        /\ \A j \in 1..Len(rotated) :
               ~rotated[j].overlapped => rotated[j].raised = "none"
        /\ \A i \in 1..Len(rotated) :
               Consecutive(i, Len(TASK_TYPES)) =>
                   \A k \in 1..Len(TASK_TYPES) :
                       Cardinality({j \in i..(i + Len(TASK_TYPES) - 1) :
                                       rotated[j].type = TASK_TYPES[k]}) = 1

\* with the bound number of types registered, one call more than there are
\* types was made, one after another: the rotation has come round to the
\* type the first call returned
C30_Witness ==
    /\ Len(TASK_TYPES) = MaxTypes
    /\ Quiescent
    /\ Len(rotated) = MaxTypes + 1
    /\ \A j \in 1..Len(rotated) : ~rotated[j].overlapped
    /\ rotated[MaxTypes + 1].type = rotated[1].type
    /\ rotated[1].type = TaskType(2)
    /\ mocked_task_counter = 1

====
